---- MODULE Spec2Model ----
(***************************************************************************)
(* CronTranslator (traductor_cron.py): rendering of five-field cron        *)
(* expressions into Spanish phrases, the validator and next-fire-time      *)
(* delegates around the croniter collaborator, and the demonstration       *)
(* driver.                                                                 *)
(*                                                                         *)
(* A Python str is modelled as the sequence of its characters (each a      *)
(* one-character string), so that split, join, int() and str() are         *)
(* computed on the text itself.                                            *)
(***************************************************************************)
EXTENDS Integers, Sequences, FiniteSets, TLC

VARIABLES
    pc,          \* position of the running call
    value,       \* _parse_field: the field token
    kind,        \* _parse_field: which of translate's five call shapes
    expression,  \* translate / get_next_executions: the cron_expression argument
    count,       \* get_next_executions: the count argument
    cron,        \* what the croniter constructor did: "none" before it is called
    valid,       \* translate: how _validate_cron_expression ended
    fields,      \* translate: the result of cron_expression.split()
    outcome,     \* how the call ended: a returned value or a raised exception
    run,         \* get_next_executions: what the collaborator did during the call
    log,         \* self.logger: the error records written
    exprs,       \* main: the list iterated
    idx,         \* main: index of the expression being processed
    stdout       \* main: what was printed

vars == <<pc, value, kind, expression, count, cron, valid, fields, outcome, run, log, exprs, idx, stdout>>

----------------------------------------------------------------------------
(* Bounds of the model *)

\* longest field token given to _parse_field
MaxLen == 4
\* most whitespace-separated fields in an expression given to translate
MaxFields == 6
\* largest count given to get_next_executions
MaxCount == 3
\* largest distance between two consecutive fire times
MaxGap == 2

----------------------------------------------------------------------------
(* Name tables and the fixed text of the phrases *)

_MONTH_NAMES ==
    << <<"e", "n", "e", "r", "o">>,
       <<"f", "e", "b", "r", "e", "r", "o">>,
       <<"m", "a", "r", "z", "o">>,
       <<"a", "b", "r", "i", "l">>,
       <<"m", "a", "y", "o">>,
       <<"j", "u", "n", "i", "o">>,
       <<"j", "u", "l", "i", "o">>,
       <<"a", "g", "o", "s", "t", "o">>,
       <<"s", "e", "p", "t", "i", "e", "m", "b", "r", "e">>,
       <<"o", "c", "t", "u", "b", "r", "e">>,
       <<"n", "o", "v", "i", "e", "m", "b", "r", "e">>,
       <<"d", "i", "c", "i", "e", "m", "b", "r", "e">> >>

_DAY_NAMES ==
    << <<"d", "o", "m", "i", "n", "g", "o">>,
       <<"l", "u", "n", "e", "s">>,
       <<"m", "a", "r", "t", "e", "s">>,
       <<"m", "i", "é", "r", "c", "o", "l", "e", "s">>,
       <<"j", "u", "e", "v", "e", "s">>,
       <<"v", "i", "e", "r", "n", "e", "s">>,
       <<"s", "á", "b", "a", "d", "o">> >>

\* names_list omitted (None)
NoNames == << >>

NounMinuto == <<"m", "i", "n", "u", "t", "o">>
NounHora == <<"h", "o", "r", "a">>
NounDiaDelMes == <<"d", "í", "a", " ", "d", "e", "l", " ", "m", "e", "s">>
NounMes == <<"m", "e", "s">>
NounDia == <<"d", "í", "a">>

StrCada == <<"c", "a", "d", "a", " ">>
StrLos == <<"l", "o", "s", " ">>
StrCommaSpace == <<",", " ">>
StrSColon == <<"s", ":", " ">>
StrDe == <<"d", "e", " ">>
StrA == <<" ", "a", " ">>
StrSDel == <<"s", " ", "d", "e", "l", " ">>
StrAl == <<" ", "a", "l", " ">>
StrS == <<"s">>
StrSpace == <<" ">>
StrStar == <<"*">>

\* the (type_name, names_list) pairs translate passes, in field order
FieldKinds == 1..5

TypeName(k) ==
    CASE k = 1 -> NounMinuto
      [] k = 2 -> NounHora
      [] k = 3 -> NounDiaDelMes
      [] k = 4 -> NounMes
      [] k = 5 -> NounDia

NamesList(k) ==
    CASE k = 4 -> _MONTH_NAMES
      [] k = 5 -> _DAY_NAMES
      [] OTHER -> NoNames

----------------------------------------------------------------------------
(* Python's str and int operations *)

Digits == <<"0", "1", "2", "3", "4", "5", "6", "7", "8", "9">>

IsDigit(c) == \E i \in 1..10 : Digits[i] = c

DigitVal(c) == (CHOOSE i \in 1..10 : Digits[i] = c) - 1

Whitespace == {" ", "\t"}

\* c in s
Contains(s, c) == \E i \in 1..Len(s) : s[i] = c

\* s.split(c): the pieces between occurrences of c, empty pieces kept
RECURSIVE SplitFrom(_, _, _, _)
SplitFrom(s, c, i, cur) ==
    IF i > Len(s) THEN <<cur>>
    ELSE IF s[i] = c THEN <<cur>> \o SplitFrom(s, c, i + 1, << >>)
    ELSE SplitFrom(s, c, i + 1, Append(cur, s[i]))

Split(s, c) == SplitFrom(s, c, 1, << >>)

\* s.split(): the maximal runs of non-whitespace characters
RECURSIVE SplitWsFrom(_, _, _)
SplitWsFrom(s, i, cur) ==
    IF i > Len(s) THEN (IF cur = << >> THEN << >> ELSE <<cur>>)
    ELSE IF s[i] \in Whitespace
         THEN (IF cur = << >> THEN << >> ELSE <<cur>>) \o SplitWsFrom(s, i + 1, << >>)
    ELSE SplitWsFrom(s, i + 1, Append(cur, s[i]))

SplitWs(s) == SplitWsFrom(s, 1, << >>)

\* sep.join(parts)
RECURSIVE Join(_, _)
Join(sep, parts) ==
    IF parts = << >> THEN << >>
    ELSE IF Len(parts) = 1 THEN parts[1]
    ELSE parts[1] \o sep \o Join(sep, Tail(parts))

\* whether int(s) succeeds: an optional sign and at least one digit (the other
\* spellings int() accepts use characters outside the token alphabet)
IsIntLiteral(s) ==
    LET body == IF s # << >> /\ s[1] = "-" THEN Tail(s) ELSE s
    IN  /\ body # << >>
        /\ \A i \in 1..Len(body) : IsDigit(body[i])

RECURSIVE DigitsVal(_, _)
DigitsVal(s, acc) ==
    IF s = << >> THEN acc ELSE DigitsVal(Tail(s), 10 * acc + DigitVal(s[1]))

\* int(s), for s with IsIntLiteral(s)
ToInt(s) == IF s[1] = "-" THEN 0 - DigitsVal(Tail(s), 0) ELSE DigitsVal(s, 0)

\* str(n)
RECURSIVE NatToStr(_)
NatToStr(n) ==
    IF n < 10 THEN <<Digits[n + 1]>>
    ELSE NatToStr(n \div 10) \o <<Digits[(n % 10) + 1]>>

IntToStr(n) == IF n < 0 THEN <<"-">> \o NatToStr(0 - n) ELSE NatToStr(n)

\* a call's result
Return(v) == [ok |-> TRUE, val |-> v]
Raise(e) == [ok |-> FALSE, exc |-> e]
Pending == [ok |-> FALSE, exc |-> "pending"]

\* get_next_executions not called
NoRun == [cron |-> "none", computed |-> << >>, err |-> "none"]

\* a Python value given as cron_expression: a str, or None
Str(s) == [type |-> "str", s |-> s]
NoneValue == [type |-> "NoneType"]

----------------------------------------------------------------------------
(* CronTranslator._parse_field *)

\* names_list[n], Python indexing: negative n counts from the end
Index(names_list, n) ==
    IF n >= 0 /\ n < Len(names_list) THEN Return(names_list[n + 1])
    ELSE IF n < 0 /\ n >= 0 - Len(names_list) THEN Return(names_list[Len(names_list) + n + 1])
    ELSE Raise("IndexError")

\* the generator of line 69: names_list[int(v)] for v in valores if int(v) < len(names_list)
RECURSIVE ListNames(_, _, _)
ListNames(valores, names_list, acc) ==
    IF valores = << >> THEN Return(acc)
    ELSE LET v == valores[1] IN
         IF ~IsIntLiteral(v) THEN Raise("ValueError")
         ELSE IF ToInt(v) < Len(names_list)
              THEN LET name == Index(names_list, ToInt(v)) IN
                   IF name.ok THEN ListNames(Tail(valores), names_list, Append(acc, name.val))
                   ELSE name
              ELSE ListNames(Tail(valores), names_list, acc)

parse_list(val, type_name, names_list) ==
    LET valores == Split(val, ",") IN
    IF names_list # NoNames
    THEN LET names == ListNames(valores, names_list, << >>) IN
         IF names.ok THEN Return(StrLos \o Join(StrCommaSpace, names.val)) ELSE names
    ELSE Return(type_name \o StrSColon \o Join(StrCommaSpace, valores))

parse_range(val, type_name, names_list) ==
    LET parts == Split(val, "-") IN
    IF \/ Len(parts) # 2
       \/ \E i \in 1..Len(parts) : ~IsIntLiteral(parts[i])
    THEN Raise("ValueError")
    ELSE LET inicio == ToInt(parts[1])
             fin == ToInt(parts[2])
         IN  IF names_list # NoNames
             THEN LET a == Index(names_list, inicio)
                      b == Index(names_list, fin)
                  IN  IF ~a.ok THEN a
                      ELSE IF ~b.ok THEN b
                      ELSE Return(StrDe \o a.val \o StrA \o b.val)
             ELSE Return(type_name \o StrSDel \o IntToStr(inicio) \o StrAl \o IntToStr(fin))

parse_step(val, type_name) ==
    LET parts == Split(val, "/") IN
    IF Len(parts) # 2 THEN Raise("ValueError")
    ELSE Return(StrCada \o parts[2] \o StrSpace \o type_name \o StrS)

_parse_field_range_first(val, type_name, names_list) ==
    IF val = StrStar THEN Return(StrCada \o type_name)
    ELSE IF Contains(val, "-") THEN parse_range(val, type_name, names_list)
    ELSE IF Contains(val, ",") THEN parse_list(val, type_name, names_list)
    ELSE IF Contains(val, "/") THEN parse_step(val, type_name)
    ELSE Return(val)

\* lines 62-84: the forms are tried in this order, each returning at once
_parse_field(val, type_name, names_list) ==
    IF val = StrStar THEN Return(StrCada \o type_name)
    ELSE IF Contains(val, ",") THEN parse_list(val, type_name, names_list)
    ELSE IF Contains(val, "-") THEN parse_range(val, type_name, names_list)
    ELSE IF Contains(val, "/") THEN parse_step(val, type_name)
    ELSE Return(val)

----------------------------------------------------------------------------
(* Inputs of the renderer *)

TokenChars == {"*", ",", "-", "/", "0", "1", "2", "7", "x"}

RECURSIVE StringsUpTo(_, _)
StringsUpTo(chars, n) ==
    IF n = 0 THEN {<< >>}
    ELSE LET shorter == StringsUpTo(chars, n - 1)
         IN  shorter \cup {Append(s, c) : s \in shorter, c \in chars}

Tokens == StringsUpTo(TokenChars, MaxLen)

InitField ==
    /\ pc = "parse_field"
    /\ value \in Tokens
    /\ kind \in FieldKinds
    /\ expression = NoneValue
    /\ count = 0
    /\ cron = "none"
    /\ valid = Pending
    /\ fields = << >>
    /\ outcome = Pending
    /\ run = NoRun
    /\ log = << >>
    /\ exprs = << >>
    /\ idx = 0
    /\ stdout = << >>

ParseField ==
    /\ pc = "parse_field"
    /\ outcome' = _parse_field(value, TypeName(kind), NamesList(kind))
    /\ pc' = "done"
    /\ UNCHANGED <<value, kind, expression, count, cron, valid, fields, run, log, exprs, idx, stdout>>

NextField == ParseField

SpecField == InitField /\ [][NextField]_vars

----------------------------------------------------------------------------
(* Properties of the renderer *)

StartsWith(s, prefix) ==
    /\ Len(s) >= Len(prefix)
    /\ SubSeq(s, 1, Len(prefix)) = prefix

EndsWith(s, suffix) ==
    /\ Len(s) >= Len(suffix)
    /\ SubSeq(s, Len(s) - Len(suffix) + 1, Len(s)) = suffix

\* s with every occurrence of the character c replaced by the text r
RECURSIVE ReplaceChar(_, _, _)
ReplaceChar(s, c, r) ==
    IF s = << >> THEN << >>
    ELSE (IF s[1] = c THEN r ELSE <<s[1]>>) \o ReplaceChar(Tail(s), c, r)

\* the syntactic form of a token, by the precedence the specification states
FormOf(tok) ==
    IF tok = StrStar THEN "Wildcard"
    ELSE IF Contains(tok, ",") THEN "List"
    ELSE IF Contains(tok, "-") THEN "Range"
    ELSE IF Contains(tok, "/") THEN "Step"
    ELSE "Literal"

\* the sub-tokens a form reads as numbers: the list items, the range bounds,
\* the step interval
SubTokens(tok) ==
    CASE FormOf(tok) = "List" -> Split(tok, ",")
      [] FormOf(tok) = "Range" -> Split(tok, "-")
      [] FormOf(tok) = "Step" -> Tail(Split(tok, "/"))
      [] OTHER -> << >>

AllInteger(parts) == \A i \in 1..Len(parts) : IsIntLiteral(parts[i])

Rendered == pc = "done"

\* C2: the renderer never fails: every token of every field kind is rendered
\* into some phrase.
C2_NeverFails == Rendered => outcome.ok

\* C8: a List, Range or Step token with a non-integer sub-token is never
\* rendered into a phrase: rendering it fails with an error.
C8_MalformedFails ==
    (Rendered /\ FormOf(value) \in {"List", "Range", "Step"} /\ ~AllInteger(SubTokens(value)))
        => ~outcome.ok

\* the names of the indices of a list that lie in [0, Len(names)), in order
RECURSIVE InRangeNames(_, _)
InRangeNames(parts, names) ==
    IF parts = << >> THEN << >>
    ELSE LET n == ToInt(parts[1]) IN
         (IF n >= 0 /\ n < Len(names) THEN <<names[n + 1]>> ELSE << >>)
             \o InRangeNames(Tail(parts), names)

WeekdayList ==
    /\ Rendered
    /\ kind = 5
    /\ FormOf(value) = "List"
    /\ AllInteger(Split(value, ","))

\* C5: a weekday List token of integer indices renders as "los " followed by
\* the ", "-joined weekday names of exactly the indices in [0,7), in order;
\* every other index is dropped without error.
C5_WeekdayList ==
    WeekdayList =>
        outcome = Return(StrLos \o Join(StrCommaSpace, InRangeNames(Split(value, ","), _DAY_NAMES)))

\* the same rendering, for the lists whose indices are all non-negative
C5_NonNegativeIndices ==
    (WeekdayList /\ ~Contains(value, "-")) =>
        outcome = Return(StrLos \o Join(StrCommaSpace, InRangeNames(Split(value, ","), _DAY_NAMES)))

MonthRange ==
    /\ Rendered
    /\ kind = 4
    /\ FormOf(value) = "Range"
    /\ Len(Split(value, "-")) = 2
    /\ AllInteger(Split(value, "-"))

\* C6: a month Range token a-b of integers renders as
\* "de {month[a]} a {month[b]}", the table zero-indexed from enero, for every
\* such range and in particular for the bounds 1 through 12.
C6_MonthRange ==
    MonthRange =>
        LET a == ToInt(Split(value, "-")[1])
            b == ToInt(Split(value, "-")[2])
        IN  /\ outcome.ok
            /\ a < Len(_MONTH_NAMES) /\ b < Len(_MONTH_NAMES)
            /\ outcome.val = StrDe \o _MONTH_NAMES[a + 1] \o StrA \o _MONTH_NAMES[b + 1]

\* the same rendering, for the ranges whose bounds both index the table
C6_BoundsInTable ==
    (MonthRange /\ \A i \in 1..2 : ToInt(Split(value, "-")[i]) < Len(_MONTH_NAMES)) =>
        outcome = Return(StrDe \o _MONTH_NAMES[ToInt(Split(value, "-")[1]) + 1]
                             \o StrA \o _MONTH_NAMES[ToInt(Split(value, "-")[2]) + 1])

\* C9: classification is total and follows the fixed precedence Wildcard, List,
\* Range, Step, Literal: "*" renders as the wildcard phrase; otherwise a token
\* with "," is handled as a List whatever else it contains; otherwise one with
\* "-" as a Range; otherwise one with "/" as a Step; any other token is
\* returned unchanged.
C9_Precedence ==
    Rendered =>
        LET noun == TypeName(kind)
            named == NamesList(kind) # NoNames
        IN  IF value = StrStar THEN outcome = Return(StrCada \o noun)
            ELSE IF Contains(value, ",")
                 THEN IF named
                      THEN outcome.ok => StartsWith(outcome.val, StrLos)
                      ELSE outcome = Return(noun \o StrSColon \o ReplaceChar(value, ",", StrCommaSpace))
            ELSE IF Contains(value, "-")
                 THEN outcome.ok =>
                          IF named THEN StartsWith(outcome.val, StrDe)
                          ELSE StartsWith(outcome.val, noun \o StrSDel)
            ELSE IF Contains(value, "/")
                 THEN outcome.ok =>
                          /\ StartsWith(outcome.val, StrCada)
                          /\ EndsWith(outcome.val, StrSpace \o noun \o StrS)
            ELSE outcome = Return(value)

\* a token carrying all three separators, rendered as a nameless List
C9_Witness ==
    /\ Rendered
    /\ Contains(value, ",") /\ Contains(value, "-") /\ Contains(value, "/")
    /\ kind = 1
    /\ outcome.ok

----------------------------------------------------------------------------
(* The croniter collaborator: what its constructor does with an expression *)

\* the values croniter allows at each position: minute, hour, day of month,
\* month, day of week (7 is Sunday again), then second and year
FieldRange(pos) ==
    CASE pos = 1 -> 0..59
      [] pos = 2 -> 0..23
      [] pos = 3 -> 1..31
      [] pos = 4 -> 1..12
      [] pos = 5 -> 0..7
      [] pos = 6 -> 0..59
      [] OTHER -> 1970..2099

IsNatLiteral(s) == s # << >> /\ \A i \in 1..Len(s) : IsDigit(s[i])

\* "ok", "bad", or "varies" where croniter releases differ (a range that runs
\* backwards)
CroniterBase(base, pos) ==
    LET bounds == Split(base, "-") IN
    IF base = StrStar THEN "ok"
    ELSE IF Len(bounds) = 1
         THEN IF IsNatLiteral(base) /\ ToInt(base) \in FieldRange(pos) THEN "ok" ELSE "bad"
    ELSE IF /\ Len(bounds) = 2
            /\ IsNatLiteral(bounds[1]) /\ ToInt(bounds[1]) \in FieldRange(pos)
            /\ IsNatLiteral(bounds[2]) /\ ToInt(bounds[2]) \in FieldRange(pos)
         THEN IF ToInt(bounds[1]) <= ToInt(bounds[2]) THEN "ok" ELSE "varies"
    ELSE "bad"

CroniterItem(item, pos) ==
    LET parts == Split(item, "/") IN
    IF Len(parts) = 1 THEN CroniterBase(item, pos)
    ELSE IF Len(parts) = 2 /\ IsNatLiteral(parts[2]) /\ ToInt(parts[2]) >= 1
         THEN CroniterBase(parts[1], pos)
    ELSE "bad"

Worst(statuses) ==
    IF "bad" \in statuses THEN "bad"
    ELSE IF "varies" \in statuses THEN "varies"
    ELSE "ok"

CroniterField(field, pos) ==
    LET items == Split(field, ",") IN
    Worst({CroniterItem(items[i], pos) : i \in 1..Len(items)})

\* croniter(expression): the set of ways the constructor can end, "ok" or the
\* exception raised. A str must hold 5 or 6 fields, 7 in the releases that know
\* years; anything that is not a str fails on the first str method used or on a
\* type check, depending on the release.
CroniterOutcomes(expr) ==
    IF expr.type # "str" THEN {"AttributeError", "TypeError"}
    ELSE LET fs == SplitWs(expr.s)
             status == Worst({CroniterField(fs[i], i) : i \in 1..Len(fs)})
         IN  IF Len(fs) \notin 5..7 \/ status = "bad" THEN {"ValueError"}
             ELSE IF Len(fs) = 7 \/ status = "varies" THEN {"ok", "ValueError"}
             ELSE {"ok"}

----------------------------------------------------------------------------
(* CronTranslator._validate_cron_expression and CronTranslator.translate *)

InvalidExpressionSyntax == "ValueError: Expresión cron inválida"
InvalidExpressionFormat == "ValueError: Formato de expresión cron inválido."

\* the validator's result, given what croniter(expression) did
_validate_cron_expression(croniter) ==
    IF croniter = "ok" THEN Return(TRUE)
    ELSE IF croniter \in {"ValueError", "TypeError"} THEN Return(FALSE)
    ELSE Raise(croniter)

split_fields_on_space(s) == Split(s, " ")

\* cron_expression.split()
split_fields(s) == SplitWs(s)

\* the five _parse_field calls, in order; the first that raises ends the call
RECURSIVE translate_from(_, _, _)
translate_from(fs, k, translations) ==
    IF k > 5 THEN Return(Join(StrSpace, translations))
    ELSE LET t == _parse_field(fs[k], TypeName(k), NamesList(k)) IN
         IF t.ok THEN translate_from(fs, k + 1, Append(translations, t.val))
         ELSE t

translate_fields(fs) == translate_from(fs, 1, << >>)

----------------------------------------------------------------------------
(* Inputs of translate *)

FieldPool ==
    { <<"*">>, <<"2">>, <<"1", "-", "1", "2">>, <<"1", ",", "7">>, <<"*", "/", "2">>, <<"x">> }

RECURSIVE SeqsOfLen(_, _)
SeqsOfLen(S, n) ==
    IF n = 0 THEN {<< >>}
    ELSE {Append(q, x) : q \in SeqsOfLen(S, n - 1), x \in S}

RECURSIVE Stars(_)
Stars(n) == IF n = 0 THEN << >> ELSE Append(Stars(n - 1), StrStar)

\* up to five fields from the pool; longer expressions add "*" fields
FieldSeqs ==
    UNION {SeqsOfLen(FieldPool, n) : n \in 0..5}
        \cup {q \o Stars(extra) : q \in SeqsOfLen(FieldPool, 5), extra \in 1..(MaxFields - 5)}

\* how the fields are laid out: single spaces, or mixed whitespace with padding
Layouts == {"plain", "padded"}

Assemble(fs, layout) ==
    IF layout = "plain" THEN Join(StrSpace, fs)
    ELSE <<" ">> \o Join(<<"\t", " ">>, fs) \o <<"\t">>

TranslateInputs ==
    {NoneValue} \cup {Str(Assemble(fs, layout)) : fs \in FieldSeqs, layout \in Layouts}

InitTranslate ==
    /\ pc = "translate"
    /\ value = << >>
    /\ kind = 1
    /\ expression \in TranslateInputs
    /\ count = 0
    /\ cron = "none"
    /\ valid = Pending
    /\ fields = << >>
    /\ outcome = Pending
    /\ run = NoRun
    /\ log = << >>
    /\ exprs = << >>
    /\ idx = 0
    /\ stdout = << >>

\* CronTranslator.translate, given what croniter(expression) does inside the
\* validator: validate, split into five fields, render each, join
translate(expr, croniter) ==
    LET v == _validate_cron_expression(croniter) IN
    IF ~v.ok THEN [valid |-> v, fields |-> << >>, outcome |-> v]
    ELSE IF ~v.val
         THEN [valid |-> v, fields |-> << >>, outcome |-> Raise(InvalidExpressionSyntax)]
    ELSE LET fs == split_fields(expr.s) IN
         IF Len(fs) # 5
         THEN [valid |-> v, fields |-> fs, outcome |-> Raise(InvalidExpressionFormat)]
         ELSE [valid |-> v, fields |-> fs, outcome |-> translate_fields(fs)]

Translate ==
    /\ pc = "translate"
    /\ \E c \in CroniterOutcomes(expression) :
        LET t == translate(expression, c) IN
        /\ cron' = c
        /\ valid' = t.valid
        /\ fields' = t.fields
        /\ outcome' = t.outcome
    /\ pc' = "done"
    /\ UNCHANGED <<value, kind, expression, count, run, log, exprs, idx, stdout>>

NextTranslate == Translate

SpecTranslate == InitTranslate /\ [][NextTranslate]_vars

----------------------------------------------------------------------------
(* Properties of translate *)

Translated == pc = "done" /\ cron # "none"

CountChar(s, c) == Cardinality({i \in 1..Len(s) : s[i] = c})

\* the text holds n fields: n starts of a run of non-whitespace characters
FieldCount(s) ==
    Cardinality({i \in 1..Len(s) :
        s[i] \notin Whitespace /\ (i = 1 \/ s[i - 1] \in Whitespace)})

\* C1: an expression of only four whitespace-separated fields fails with the
\* format error, not the syntax error, and yields no translation.
C1_FourFieldsFormat ==
    (Translated /\ expression.type = "str" /\ FieldCount(expression.s) = 4)
        => outcome = Raise(InvalidExpressionFormat)

\* C4: the validator always ends with a boolean: any failure of the
\* collaborator's constructor, whatever its kind, gives False and reaches
\* neither the validator's caller nor translate's.
C4_ValidatorNormalizes ==
    (Translated /\ cron # "ok")
        => (valid = Return(FALSE) /\ outcome = Raise(InvalidExpressionSyntax))

\* five "*" fields and nothing else but the whitespace between and around them
AllWildcards(s) ==
    /\ \A i \in 1..Len(s) : s[i] = "*" \/ s[i] \in Whitespace
    /\ CountChar(s, "*") = 5
    /\ FieldCount(s) = 5

AllWildcardsText ==
    <<"c", "a", "d", "a", " ", "m", "i", "n", "u", "t", "o", " ",
      "c", "a", "d", "a", " ", "h", "o", "r", "a", " ",
      "c", "a", "d", "a", " ", "d", "í", "a", " ", "d", "e", "l", " ", "m", "e", "s", " ",
      "c", "a", "d", "a", " ", "m", "e", "s", " ",
      "c", "a", "d", "a", " ", "d", "í", "a">>

\* C7: for five "*" fields, however separated, translate returns exactly
\* "cada minuto cada hora cada día del mes cada mes cada día".
C7_AllWildcards ==
    (Translated /\ expression.type = "str" /\ AllWildcards(expression.s))
        => outcome = Return(AllWildcardsText)

\* five "*" fields separated by tabs and spaces, translated
C7_Witness ==
    /\ Translated
    /\ expression.type = "str"
    /\ AllWildcards(expression.s)
    /\ Contains(expression.s, "\t")
    /\ outcome.ok

----------------------------------------------------------------------------
(* CronTranslator.get_next_executions *)

\* the default of the count parameter
DefaultCount == 5

\* the failures a get_next call can end with
GetNextFailures == {"CroniterBadDateError", "Exception"}

\* fire times as minutes after base = datetime.now(): the strictly increasing
\* sequences of n times that start after `last`
RECURSIVE FireTimes(_, _)
FireTimes(last, n) ==
    IF n <= 0 THEN {<< >>}
    ELSE UNION {{<<t>> \o rest : rest \in FireTimes(t, n - 1)} : t \in (last + 1)..(last + MaxGap)}

\* what the collaborator can do during one call: the constructor fails, or it
\* succeeds and the get_next calls return fire times until one of them fails
\* or n of them are done
GneRuns(expr, n) ==
    {[cron |-> c, computed |-> << >>, err |-> c] : c \in CroniterOutcomes(expr) \ {"ok"}}
    \cup
    (IF "ok" \notin CroniterOutcomes(expr) THEN {}
     ELSE {[cron |-> "ok", computed |-> ts, err |-> "none"] : ts \in FireTimes(0, n)}
          \cup UNION {{[cron |-> "ok", computed |-> ts, err |-> e] :
                          ts \in FireTimes(0, k), e \in GetNextFailures} : k \in 0..(n - 1)})

get_next_executions_partial(r) ==
    IF r.err = "none" THEN [ret |-> Return(r.computed), logged |-> << >>]
    ELSE [ret |-> Return(r.computed), logged |-> <<r.err>>]

\* lines 128-134: the list of all fire times, or on any exception an error
\* record in the log and the empty list
get_next_executions(r) ==
    IF r.err = "none" THEN [ret |-> Return(r.computed), logged |-> << >>]
    ELSE [ret |-> Return(<< >>), logged |-> <<r.err>>]

cron_expressions ==
    << Str(<<"*", "/", "5", " ", "*", " ", "*", " ", "*", " ", "*">>),
       Str(<<"0", " ", "2", " ", "*", " ", "*", " ", "1", "-", "5">>),
       Str(<<"0", " ", "0", " ", "1", " ", "*", "/", "2", " ", "*">>),
       Str(<<"3", "0", " ", "3", " ", "1", "5", " ", "*", " ", "*">>),
       Str(<<"0", " ", "1", "2", " ", "*", " ", "*", " ", "1", ",", "3", ",", "5">>) >>

RejectedExamples ==
    { Str(<<"*", " ", "*", " ", "*", " ", "*">>),
      Str(<<"*", " ", "*", " ", "*", " ", "*", " ", "*", " ", "*">>),
      Str(<<"*", " ", "*", " ", "*", " ", "1", "-", "1", "2", " ", "*">>) }

ExampleInputs ==
    {NoneValue} \cup RejectedExamples \cup {cron_expressions[i] : i \in 1..Len(cron_expressions)}


InitNext ==
    /\ pc = "get_next_executions"
    /\ value = << >>
    /\ kind = 1
    /\ expression \in ExampleInputs
    /\ count \in (0 - 1)..MaxCount
    /\ cron = "none"
    /\ valid = Pending
    /\ fields = << >>
    /\ outcome = Pending
    /\ run = NoRun
    /\ log = << >>
    /\ exprs = << >>
    /\ idx = 0
    /\ stdout = << >>

GetNextExecutions ==
    /\ pc = "get_next_executions"
    /\ \E r \in GneRuns(expression, count) :
        /\ run' = r
        /\ cron' = r.cron
        /\ outcome' = get_next_executions(r).ret
        /\ log' = log \o get_next_executions(r).logged
    /\ pc' = "done"
    /\ UNCHANGED <<value, kind, expression, count, valid, fields, exprs, idx, stdout>>

NextNext == GetNextExecutions

SpecNext == InitNext /\ [][NextNext]_vars

\* C3: get_next_executions never raises: when the collaborator fails, in the
\* constructor or in any get_next call, the failure is logged and the empty
\* list is returned, not the fire times computed before the failure.
C3_SwallowAndDegrade ==
    (pc = "done" /\ run.cron # "none") =>
        /\ outcome.ok
        /\ run.err # "none" => (outcome.val = << >> /\ log = <<run.err>>)

\* a get_next call failed after earlier calls had returned fire times
C3_Witness ==
    /\ pc = "done"
    /\ run.err # "none"
    /\ Len(run.computed) >= 1
    /\ outcome = Return(<< >>)

----------------------------------------------------------------------------
(* main: the demonstration driver *)

\* the lists iterated: the literal of lines 140-146, and that list with one
\* entry replaced by an expression translate rejects, the case the except
\* clause of the loop is written for
DriverLists ==
    {cron_expressions}
        \cup {[cron_expressions EXCEPT ![i] = e] : i \in 1..Len(cron_expressions), e \in RejectedExamples}

InitMain ==
    /\ pc = "for"
    /\ value = << >>
    /\ kind = 1
    /\ expression = NoneValue
    /\ count = DefaultCount
    /\ cron = "none"
    /\ valid = Pending
    /\ fields = << >>
    /\ outcome = Pending
    /\ run = NoRun
    /\ log = << >>
    /\ exprs \in DriverLists
    /\ idx = 1
    /\ stdout = << >>

after_exception_stops(i) == [pc |-> "exit", idx |-> i]

\* lines 155-156: the exception was caught; the loop goes on with the next
\* expression
after_exception(i) == [pc |-> "for", idx |-> i + 1]

\* line 148 and line 150: take the next expression and print it, or leave the
\* loop
MainFor ==
    /\ pc = "for"
    /\ IF idx > Len(exprs)
       THEN /\ pc' = "exit"
            /\ UNCHANGED <<expression, stdout>>
       ELSE /\ pc' = "translate"
            /\ expression' = exprs[idx]
            /\ stdout' = Append(stdout, [line |-> "Expresión", i |-> idx])
    /\ UNCHANGED <<value, kind, count, cron, valid, fields, outcome, run, log, exprs, idx>>

\* translate and get_next_executions are pure in the expression and in what
\* the collaborator does: the ways each can end, tabulated over the expressions
\* the driver iterates
TranslateEnds ==
    [e \in ExampleInputs |-> {[cron |-> c, t |-> translate(e, c)] : c \in CroniterOutcomes(e)}]

GetNextExecutionsEnds ==
    [e \in ExampleInputs |-> {get_next_executions(r) : r \in GneRuns(e, DefaultCount)}]

\* lines 151-152: the translation is printed, or translate raises and the except
\* clause prints the error
MainTranslate ==
    /\ pc = "translate"
    /\ \E end \in TranslateEnds[expression] :
        /\ cron' = end.cron
        /\ valid' = end.t.valid
        /\ fields' = end.t.fields
        /\ outcome' = end.t.outcome
        /\ IF end.t.outcome.ok
           THEN /\ stdout' = stdout \o << [line |-> "Traducción", i |-> idx],
                                          [line |-> "Próximas ejecuciones", i |-> idx] >>
                /\ pc' = "next"
                /\ idx' = idx
           ELSE /\ stdout' = Append(stdout, [line |-> "Error procesando", i |-> idx])
                /\ pc' = after_exception(idx).pc
                /\ idx' = after_exception(idx).idx
    /\ UNCHANGED <<value, kind, expression, count, run, log, exprs>>

\* lines 153-154: one line per fire time returned
MainNextExecutions ==
    /\ pc = "next"
    /\ \E g \in GetNextExecutionsEnds[expression] :
        /\ log' = log \o g.logged
        /\ stdout' = Append(stdout, [line |-> "exec_time", i |-> idx, n |-> Len(g.ret.val)])
    /\ pc' = "for"
    /\ idx' = idx + 1
    /\ UNCHANGED <<value, kind, expression, count, cron, valid, fields, outcome, run, exprs>>

NextMain == MainFor \/ MainTranslate \/ MainNextExecutions

\* main is one sequential thread: while a statement is left to run, it runs
SpecMain == InitMain /\ [][NextMain]_vars /\ WF_vars(NextMain)

\* the indices of the expressions whose processing began, in print order
Started == SelectSeq(stdout, LAMBDA l : l.line = "Expresión")

\* the indices of the expressions whose processing ended, with a fire-time
\* listing or with a printed error
Ended == SelectSeq(stdout, LAMBDA l : l.line \in {"exec_time", "Error procesando"})

InListOrder(lines) ==
    /\ Len(lines) = Len(exprs)
    /\ \A i \in 1..Len(lines) : lines[i].i = i

\* C10: a failure while processing one expression never stops the batch: it is
\* caught and printed, every expression of the list is processed in list
\* order, and the driver ends normally.
C10_BatchCompletes ==
    <>[](/\ pc = "exit"
         /\ InListOrder(Started)
         /\ InListOrder(Ended))

\* the driver has ended, an expression before the last one failed and the
\* ones after it were processed
C10_Witness ==
    /\ pc = "exit"
    /\ \E j \in 1..Len(stdout) :
        /\ stdout[j].line = "Error procesando"
        /\ stdout[j].i < Len(exprs)
        /\ \E k \in (j + 1)..Len(stdout) : stdout[k].line = "Traducción"

====
